---- MODULE Spec2Model ----
(***************************************************************************)
(* Model of shared-yodl: the chain registry (constants/index.ts), the      *)
(* string and chain helpers (utils), and the preferences validation        *)
(* pipeline with its text serializer (validation/preferences.validation).  *)
(*                                                                         *)
(* JavaScript values are tagged records [t |-> typeof-like tag, v |-> ..]: *)
(*   number  v is an integer          nan     the number NaN               *)
(*   string  v is a sequence of one-character strings                      *)
(*   array   v is a sequence of values                                     *)
(*   object  v is a function from property names to values; a property     *)
(*           that is absent (or undefined) is not in its domain            *)
(*   json    a string whose text is the JSON encoding of the value v       *)
(*   native  an object/function inherited from Object.prototype            *)
(*   undefined                                                             *)
(***************************************************************************)
EXTENDS Integers, Sequences, FiniteSets, TLC

VARIABLES input, pc, result, resolved, text, again

vars == <<input, pc, result, resolved, text, again>>

----------------------------------------------------------------------------
(* Values *)

Undefined == [t |-> "undefined", v |-> 0]
NaN == [t |-> "nan", v |-> 0]
Num(n) == [t |-> "number", v |-> n]
Str(s) == [t |-> "string", v |-> s]
Arr(a) == [t |-> "array", v |-> a]
Obj(f) == [t |-> "object", v |-> f]
Json(x) == [t |-> "json", v |-> x]
Native == [t |-> "native", v |-> 0]

EmptyObject == Obj(<<>>)

\* typeof x === 'string'
IsString(x) == x.t \in {"string", "json"}

\* Array.isArray(x)
IsArray(x) == x.t = "array"

\* x is a plain (non-array, non-null) object
IsObject(x) == x.t = "object"

Has(o, k) == k \in DOMAIN o.v

Get(o, k) == IF Has(o, k) THEN o.v[k] ELSE Undefined

\* the object o without the properties in ks
Without(o, ks) == Obj([k \in (DOMAIN o.v) \ ks |-> o.v[k]])

\* the object o with property k set to x; setting undefined leaves it absent
\* once undefined-valued keys are deleted
With(o, k, x) ==
  IF x = Undefined
    THEN Without(o, {k})
    ELSE Obj([j \in (DOMAIN o.v) \cup {k} |-> IF j = k THEN x ELSE o.v[j]])

\* outcome of a zod parse: success with the parsed data, or failure
Ok(x) == [ok |-> TRUE, v |-> x]
Fail == [ok |-> FALSE, v |-> Undefined]

Map(f(_), s) == [i \in 1..Len(s) |-> f(s[i])]

Range(s) == {s[i] : i \in DOMAIN s}

----------------------------------------------------------------------------
(* Characters and strings *)

Digits == <<"0", "1", "2", "3", "4", "5", "6", "7", "8", "9">>

IsDigit(c) == \E i \in 1..Len(Digits) : Digits[i] = c

DigitValue(c) == (CHOOSE i \in 1..Len(Digits) : Digits[i] = c) - 1

IsSpace(c) == c \in {" ", "\t", "\n"}

\* String.prototype.toLowerCase on one character
LowerChar(c) ==
  CASE c = "A" -> "a" [] c = "B" -> "b" [] c = "C" -> "c" [] c = "D" -> "d"
    [] c = "E" -> "e" [] c = "G" -> "g" [] c = "H" -> "h" [] c = "I" -> "i"
    [] c = "L" -> "l" [] c = "N" -> "n" [] c = "O" -> "o" [] c = "P" -> "p"
    [] c = "R" -> "r" [] c = "S" -> "s" [] c = "T" -> "t" [] c = "U" -> "u"
    [] OTHER -> c

toLowerCase(s) == Map(LowerChar, s)

\* String.prototype.trim
trim(s) ==
  IF \A i \in 1..Len(s) : IsSpace(s[i]) THEN <<>>
  ELSE SubSeq(s, CHOOSE i \in 1..Len(s) : ~IsSpace(s[i]) /\ \A j \in 1..(i - 1) : IsSpace(s[j]),
                 CHOOSE i \in 1..Len(s) : ~IsSpace(s[i]) /\ \A j \in (i + 1)..Len(s) : IsSpace(s[j]))

\* String.prototype.startsWith
startsWith(s, p) == Len(s) >= Len(p) /\ SubSeq(s, 1, Len(p)) = p

\* String.prototype.split(',') : the pieces between the commas
split(s) ==
  LET cuts == {i \in 1..Len(s) : s[i] = ","}
      n == Cardinality(cuts)
      \* position of the k-th comma, 0 before the first piece, Len+1 after the last
      cut(k) == IF k = 0 THEN 0
                ELSE IF k = n + 1 THEN Len(s) + 1
                ELSE CHOOSE i \in cuts : Cardinality({j \in cuts : j <= i}) = k
  IN [k \in 1..(n + 1) |-> SubSeq(s, cut(k - 1) + 1, cut(k) - 1)]

RECURSIVE Join(_, _)
\* Array.prototype.join(sep) on an array of strings (given as character sequences)
Join(a, sep) ==
  IF Len(a) = 0 THEN <<>>
  ELSE IF Len(a) = 1 THEN a[1]
  ELSE a[1] \o sep \o Join(Tail(a), sep)

RECURSIVE SumDigits(_)
\* value of a sequence of decimal digit values
SumDigits(d) ==
  IF Len(d) = 0 THEN 0
  ELSE 10 * SumDigits(SubSeq(d, 1, Len(d) - 1)) + d[Len(d)]

RECURSIVE Pow10(_)
Pow10(n) == IF n = 0 THEN 1 ELSE 10 * Pow10(n - 1)

\* digits, then optionally e/E and digits: the numeric literals the inputs can spell
IsDecimalLiteral(s) ==
  \E i \in 2..(Len(s) + 1) :
    /\ i <= Len(s) => (s[i] \in {"e", "E"} /\ i < Len(s))
    /\ \A j \in 1..Len(s) : j # i => IsDigit(s[j])

\* numbers from 10^9 up are all represented by 10^9: the registry holds no id
\* that large, and no other number is compared
Huge == 10 * 10 * 10 * 10 * 10 * 10 * 10 * 10 * 10

\* mantissa * 10^exponent
Scale(mantissa, exponent) ==
  IF mantissa = 0 THEN 0
  ELSE IF exponent > 9 THEN Huge
  ELSE IF mantissa >= Huge \div Pow10(exponent) THEN Huge
  ELSE mantissa * Pow10(exponent)

\* the digits of s before position i scaled by those after it
DigitsAround(s, i) ==
  Scale(SumDigits(Map(DigitValue, SubSeq(s, 1, i - 1))),
        SumDigits(Map(DigitValue, SubSeq(s, i + 1, Len(s)))))

\* position of the exponent mark of a decimal literal, Len(s) + 1 when it has none
ExponentMark(s) ==
  IF \E j \in 1..Len(s) : s[j] \in {"e", "E"}
    THEN CHOOSE j \in 1..Len(s) : s[j] \in {"e", "E"}
    ELSE Len(s) + 1

\* the value of a decimal literal: mantissa * 10^exponent
LiteralValue(s) == DigitsAround(s, ExponentMark(s))

\* the number a trimmed string spells: the empty string is 0, a decimal literal
\* is its value, anything else is NaN
NumberOfTrimmed(u) ==
  CASE u = <<>> -> Num(0)
    [] u # <<>> /\ IsDecimalLiteral(u) -> Num(LiteralValue(u))
    [] OTHER -> NaN

\* Number(s) for a string s: surrounding whitespace is ignored
Number(s) == NumberOfTrimmed(trim(s))

----------------------------------------------------------------------------
(* constants/index.ts : the chain registry *)

\* the viem chain objects, reduced to the id the module reads
mainnet == [id |-> 1]
polygon == [id |-> 137]
arbitrum == [id |-> 42161]
optimism == [id |-> 10]
gnosis == [id |-> 100]
base == [id |-> 8453]

SUPPORTED_CHAINS == <<mainnet, polygon, arbitrum, optimism, gnosis, base>>

\* the short-name table, in declaration order
CHAIN_SHORT_NAMES ==
  << [name |-> <<"e", "t", "h">>, id |-> mainnet.id],
     [name |-> <<"o", "e", "t", "h">>, id |-> optimism.id],
     [name |-> <<"o", "p">>, id |-> optimism.id],
     [name |-> <<"p", "o", "l">>, id |-> polygon.id],
     [name |-> <<"g", "n", "o">>, id |-> gnosis.id],
     [name |-> <<"a", "r", "b", "1">>, id |-> arbitrum.id],
     [name |-> <<"b", "a", "s", "e">>, id |-> base.id] >>

\* all-lowercase property names every object literal inherits from Object.prototype
ObjectPrototypeKeys ==
  { <<"c", "o", "n", "s", "t", "r", "u", "c", "t", "o", "r">>,
    <<"_", "_", "p", "r", "o", "t", "o", "_", "_">> }

\* key in CHAIN_SHORT_NAMES : own and inherited properties
InChainShortNames(key) ==
  \/ \E i \in DOMAIN CHAIN_SHORT_NAMES : CHAIN_SHORT_NAMES[i].name = key
  \/ key \in ObjectPrototypeKeys

\* CHAIN_SHORT_NAMES[key], for a key that is in it
ChainShortNamesAt(key) ==
  LET own == {e \in Range(CHAIN_SHORT_NAMES) : e.name = key}
  IN IF own = {} THEN Native ELSE Num((CHOOSE e \in own : TRUE).id)

----------------------------------------------------------------------------
(* utils : stringUtils, chainIdToShortName, resolveChainIdOrShortName *)

RECURSIVE NatToDigits(_)
\* String(n) for a natural number
NatToDigits(n) ==
  IF n < 10 THEN <<Digits[n + 1]>>
  ELSE NatToDigits(n \div 10) \o <<Digits[(n % 10) + 1]>>

\* the text Array.prototype.join gives an element
ElementText(x) ==
  CASE x.t = "string" -> x.v
    [] x.t = "number" -> NatToDigits(x.v)
    [] x.t = "nan" -> <<"N", "a", "N">>
    [] OTHER -> <<>>

\* array.join with a semicolon
arrayToSemicolonString(array) == Str(Join(Map(ElementText, array.v), <<";">>))

\* stringUtils.arrayToCommaString : array.join(',')
arrayToCommaString(array) == Str(Join(Map(ElementText, array.v), <<",">>))

\* stringUtils.commaStringToArray : split(',').map(item => item.trim())
commaStringToArray(s) == Arr(Map(LAMBDA item : Str(trim(item)), split(s.v)))

\* the last declared short name instead of the first
chainIdToShortNameLast(chainId) ==
  LET hits == {i \in 1..Len(CHAIN_SHORT_NAMES) : Num(CHAIN_SHORT_NAMES[i].id) = chainId}
  IN IF hits = {} THEN Undefined
     ELSE Str(CHAIN_SHORT_NAMES[CHOOSE i \in hits : \A j \in hits : i >= j].name)

\* Object.entries(CHAIN_SHORT_NAMES).find(([_, id]) => id === chainId)?.[0]
chainIdToShortName(chainId) ==
  LET hits == {i \in 1..Len(CHAIN_SHORT_NAMES) : Num(CHAIN_SHORT_NAMES[i].id) = chainId}
  IN IF hits = {} THEN Undefined
     ELSE Str(CHAIN_SHORT_NAMES[CHOOSE i \in hits : \A j \in hits : i <= j].name)

\* z.number().safeParse(value).success : a number that is not NaN
isValidNumber(value) == value.t = "number"

\* resolveChainIdOrShortName(chainIdOrShortName), on a string value
resolveChainIdOrShortName(chainIdOrShortName) ==
  IF isValidNumber(chainIdOrShortName)
    THEN Number(chainIdOrShortName.v)
    ELSE LET key == toLowerCase(chainIdOrShortName.v)
         IN IF InChainShortNames(key) THEN ChainShortNamesAt(key) ELSE Undefined

----------------------------------------------------------------------------
(* zod string().url() : new URL(s) succeeds *)

Letters ==
  {"a", "b", "c", "d", "e", "f", "g", "h", "i", "j", "k", "l", "m", "n", "o", "p",
   "q", "r", "s", "t", "u", "v", "w", "x", "y", "z",
   "A", "B", "C", "D", "E", "F", "G", "H", "I", "J", "K", "L", "M", "N", "O", "P",
   "Q", "R", "S", "T", "U", "V", "W", "X", "Y", "Z"}

\* schemes whose URLs must have a host
SpecialSchemes ==
  { <<"h", "t", "t", "p">>, <<"h", "t", "t", "p", "s">>, <<"f", "t", "p">>,
    <<"w", "s">>, <<"w", "s", "s">> }

\* index of the first colon of s, 0 when there is none
FirstColon(s) ==
  IF \E i \in 1..Len(s) : s[i] = ":"
    THEN CHOOSE i \in 1..Len(s) : s[i] = ":" /\ \A j \in 1..(i - 1) : s[j] # ":"
    ELSE 0

\* the least element of a non-empty set of numbers
Least(S) == CHOOSE i \in S : \A j \in S : i <= j

\* the characters before the colon at c when they spell a scheme (lowercased),
\* <<>> when they do not
SchemeBefore(u, c) ==
  IF /\ c > 1
     /\ u[1] \in Letters
     /\ \A i \in 1..(c - 1) : u[i] \in Letters \/ IsDigit(u[i]) \/ u[i] \in {"+", "-", "."}
    THEN toLowerCase(SubSeq(u, 1, c - 1))
    ELSE <<>>

\* the scheme of s as the URL parser reads it, <<>> when s has none
UrlScheme(s) == SchemeBefore(trim(s), FirstColon(trim(s)))

\* rest from position from up to the next slash, query or fragment
UpToStop(rest, from) ==
  IF \E i \in from..Len(rest) : rest[i] \in {"/", "\\", "?", "#"}
    THEN SubSeq(rest, from, Least({i \in from..Len(rest) : rest[i] \in {"/", "\\", "?", "#"}}) - 1)
    ELSE SubSeq(rest, from, Len(rest))

\* the host in what follows the colon: the leading slashes skipped
HostIn(rest) ==
  IF \E i \in 1..Len(rest) : rest[i] \notin {"/", "\\"}
    THEN UpToStop(rest, Least({i \in 1..Len(rest) : rest[i] \notin {"/", "\\"}}))
    ELSE <<>>

\* what follows the first colon of u
AfterColon(u) == SubSeq(u, FirstColon(u) + 1, Len(u))

\* the host of a special-scheme URL
UrlHost(s) == HostIn(AfterColon(trim(s)))

\* a URL with this scheme and host parses
ValidUrlParts(scheme, host) ==
  /\ scheme # <<>>
  /\ scheme \in SpecialSchemes => (host # <<>> /\ \A c \in Range(host) : ~IsSpace(c))

\* new URL(s) does not throw (no base URL is given)
isURL(s) == ValidUrlParts(UrlScheme(s), UrlHost(s))

HttpsPrefix == <<"h", "t", "t", "p", "s", ":", "/", "/">>

\* z.string().url()
UrlSchema(x) == IF x.t = "string" /\ isURL(x.v) THEN Ok(x) ELSE Fail

\* z.string().url().refine(url => url.startsWith('https://'))
WebhookEntryOk(x) == x.t = "string" /\ isURL(x.v) /\ startsWith(x.v, HttpsPrefix)

MAX_WEBHOOKS == 15

\* the webhooks field without the length limit
WebhooksSchemaNoMax(x) ==
  IF IsArray(x) /\ \A e \in Range(x.v) : WebhookEntryOk(e)
    THEN Ok(x) ELSE Fail

\* z.array(...).max(15)
WebhooksSchema(x) ==
  IF /\ IsArray(x)
     /\ \A e \in Range(x.v) : WebhookEntryOk(e)
     /\ Len(x.v) <= MAX_WEBHOOKS
    THEN Ok(x) ELSE Fail

\* z.string()
StringSchema(x) == IF x.t = "string" THEN Ok(x) ELSE Fail

\* z.number().nonnegative()
AmountSchema(x) == IF x.t = "number" /\ x.v >= 0 THEN Ok(x) ELSE Fail

\* z.object({ baseUrl: z.string().url().optional() }) : unknown keys are stripped
OgSchema(x) ==
  IF ~IsObject(x) THEN Fail
  ELSE IF ~Has(x, "baseUrl") THEN Ok(EmptyObject)
  ELSE IF x.v["baseUrl"].t = "string" /\ isURL(x.v["baseUrl"].v)
    THEN Ok(Obj([k \in {"baseUrl"} |-> x.v[k]]))
  ELSE Fail

----------------------------------------------------------------------------
(* TokenConfigSchema and ChainConfigSchema *)

\* z.preprocess(..., z.array(z.string()))
\* the preprocess step of TokenConfigSchema
TokenPreprocess(x) == IF x.t = "string" THEN commaStringToArray(x) ELSE x

\* z.array(z.string())
StringArraySchema(pre) ==
  IF IsArray(pre) /\ \A e \in Range(pre.v) : e.t = "string" THEN Ok(pre) ELSE Fail

\* z.preprocess(..., z.array(z.string()))
TokenConfigSchema(x) == StringArraySchema(TokenPreprocess(x))

\* isNaN(num) ? item : num
NumberOrItem(item, num) == IF num = NaN THEN item ELSE num

\* the preprocess step of ChainConfigSchema
ChainPreprocess(x) ==
  IF IsArray(x) THEN x
  ELSE IF x.t = "string"
    THEN Arr(Map(LAMBDA item : NumberOrItem(item, Number(item.v)), commaStringToArray(x).v))
  ELSE x

\* chains.map(chain => typeof chain === 'string' ? resolveChainIdOrShortName(chain) : chain)
ChainResolveAll(chains) ==
  Map(LAMBDA chain : IF chain.t = "string" THEN resolveChainIdOrShortName(chain) ELSE chain,
      chains)

\* a filter that forgets the supported-chain test
ChainFilterNoRegistry(id) == id # Num(0) /\ id # Undefined

\* id !== 0 && id !== undefined && SUPPORTED_CHAINS.some(chain => chain.id === id)
ChainFilter(id) ==
  /\ id # Num(0)
  /\ id # Undefined
  /\ \E i \in 1..Len(SUPPORTED_CHAINS) : Num(SUPPORTED_CHAINS[i].id) = id

\* z.array(z.union([z.string(), z.number()])).transform(...)
ChainArraySchema(pre) ==
  IF IsArray(pre) /\ \A e \in Range(pre.v) : e.t \in {"string", "number"}
    THEN Ok(Arr(SelectSeq(ChainResolveAll(pre.v), ChainFilter)))
    ELSE Fail

\* z.preprocess(..., z.array(z.union([z.string(), z.number()])).transform(...))
ChainConfigSchema(x) == ChainArraySchema(ChainPreprocess(x))

----------------------------------------------------------------------------
(* JSON text *)

\* JSON.stringify(x) of a value made of finite numbers, strings, arrays and plain
\* objects without undefined members: a string that JSON.parse decodes to x
JSONstringify(x) == Json(x)

\* a JSON number: a decimal literal without a leading zero
IsJSONNumber(s) ==
  /\ s # <<>>
  /\ IsDecimalLiteral(s)
  /\ s[1] = "0" => (Len(s) = 1 \/ s[2] \in {"e", "E"})

\* the value of a trimmed JSON text, or Fail.  Of the character strings the
\* inputs can spell, only number literals are JSON.
JSONparseText(u) == IF IsJSONNumber(u) THEN Ok(Num(LiteralValue(u))) ELSE Fail

\* JSON.parse(x) of a string: the decoded value, or Fail when it throws
JSONparse(x) == IF x.t = "json" THEN Ok(x.v) ELSE JSONparseText(trim(x.v))

\* input.trim() !== ''
TrimmedNonEmpty(x) == x.t = "json" \/ \E c \in Range(x.v) : ~IsSpace(c)

----------------------------------------------------------------------------
(* PreferencesSchema *)

\* try { return JSON.parse(input) } catch { return {} }
ParseOrEmpty(decoded) == IF decoded.ok THEN decoded.v ELSE EmptyObject

\* a preprocess that lets the decode failure through
PreferencesPreprocessNoRecover(x) ==
  IF IsString(x) /\ TrimmedNonEmpty(x) /\ JSONparse(x).ok THEN JSONparse(x).v ELSE x

\* the preprocess step: JSON.parse a non-blank string, {} when that throws
PreferencesPreprocess(x) ==
  IF IsString(x) /\ TrimmedNonEmpty(x) THEN ParseOrEmpty(JSONparse(x)) ELSE x

\* the schema of property k of the object; catchall(z.unknown()) for the rest
FieldSchema(k, x) ==
  CASE k \in {"chainIds", "chains"} -> ChainConfigSchema(x)
    [] k \in {"tokenSymbols", "tokens"} -> TokenConfigSchema(x)
    [] k = "redirectUrl" -> UrlSchema(x)
    [] k = "currency" -> StringSchema(x)
    [] k = "amount" -> AmountSchema(x)
    [] k = "webhooks" -> WebhooksSchema(x)
    [] k = "og" -> OgSchema(x)
    [] OTHER -> Ok(x)

\* the object of the parsed fields, Fail when a field failed
AllFields(parsed) ==
  IF \E k \in DOMAIN parsed : ~parsed[k].ok
    THEN Fail
    ELSE Ok(Obj([k \in DOMAIN parsed |-> parsed[k].v]))

\* z.object({...}).catchall(z.unknown()) : every present property is parsed
PreferencesObjectSchema(data) ==
  IF ~IsObject(data) THEN Fail
  ELSE AllFields([k \in DOMAIN data.v |-> FieldSchema(k, data.v[k])])

\* the legacy field forgotten
MergeChainIdsCurrentOnly(data) ==
  IF Has(data, "chains") THEN data.v["chains"] ELSE Arr(<<>>)

\* the legacy field first
MergeChainIdsLegacyFirst(data) ==
  IF Has(data, "chainIds") THEN data.v["chainIds"]
  ELSE IF Has(data, "chains") THEN data.v["chains"]
  ELSE Arr(<<>>)

\* data.chains ?? data.chainIds ?? []
MergeChainIds(data) ==
  IF Has(data, "chains") THEN data.v["chains"]
  ELSE IF Has(data, "chainIds") THEN data.v["chainIds"]
  ELSE Arr(<<>>)

\* data.tokens ?? data.tokenSymbols ?? []
MergeTokenSymbols(data) ==
  IF Has(data, "tokens") THEN data.v["tokens"]
  ELSE IF Has(data, "tokenSymbols") THEN data.v["tokenSymbols"]
  ELSE Arr(<<>>)

KnownKeys == {"redirectUrl", "currency", "amount", "webhooks", "og"}

\* only the legacy keys are taken out of the rest
DroppedKeysLegacyOnly == {"chainIds", "tokenSymbols"}

\* the keys the destructuring takes out of otherProps besides the known ones
DroppedKeys == {"chains", "tokens", "chainIds", "tokenSymbols"}

\* the transform: { chainIds, tokenSymbols, redirectUrl, currency, amount, webhooks,
\* og, ...otherProps } with the undefined members deleted (key order is not kept)
PreferencesTransform(data) ==
  Obj([k \in {"chainIds", "tokenSymbols"} \cup ((DOMAIN data.v) \ DroppedKeys) |->
         IF k = "chainIds" THEN MergeChainIds(data)
         ELSE IF k = "tokenSymbols" THEN MergeTokenSymbols(data)
         ELSE data.v[k]])

\* the transform runs on the parsed object, when every field parsed
TransformParsed(data) == IF data.ok THEN Ok(PreferencesTransform(data.v)) ELSE Fail

\* PreferencesSchema.parse(x) : Fail when it throws a ZodError
PreferencesSchema(x) == TransformParsed(PreferencesObjectSchema(PreferencesPreprocess(x)))

----------------------------------------------------------------------------
(* convertPreferencesToText *)

\* Boolean(x)
Truthy(x) == x \notin {Undefined, NaN, Num(0), Str(<<>>)}

\* preferences.chainIds?.map(chainIdToShortName).filter(Boolean)
ProcessedChains(preferences) ==
  IF Has(preferences, "chainIds")
    THEN Arr(SelectSeq(Map(chainIdToShortName, preferences.v["chainIds"].v), Truthy))
    ELSE Undefined

\* the tokens member: joined when tokenSymbols is truthy
FormattedTokens(preferences) ==
  IF Truthy(Get(preferences, "tokenSymbols"))
    THEN arrayToCommaString(preferences.v["tokenSymbols"])
    ELSE Undefined

\* processedChains && processedChains.length > 0 ? arrayToCommaString(..) : undefined
JoinedChains(processedChains) ==
  IF processedChains # Undefined /\ Len(processedChains.v) > 0
    THEN arrayToCommaString(processedChains)
    ELSE Undefined

\* the chains member
FormattedChains(preferences) == JoinedChains(ProcessedChains(preferences))

\* the call throws a TypeError: chainIds without .map, tokenSymbols without .join
ConvertThrows(preferences) ==
  \/ ~IsObject(preferences)
  \/ Has(preferences, "chainIds") /\ ~IsArray(preferences.v["chainIds"])
  \/ Truthy(Get(preferences, "tokenSymbols")) /\ ~IsArray(preferences.v["tokenSymbols"])

\* the for..in loop: every property but chainIds and tokenSymbols is assigned
\* onto formatted
CopyOtherProperties(formatted, preferences) ==
  Obj([k \in (DOMAIN formatted.v) \cup ((DOMAIN preferences.v) \ {"chainIds", "tokenSymbols"}) |->
         IF k \in (DOMAIN preferences.v) \ {"chainIds", "tokenSymbols"}
           THEN preferences.v[k]
           ELSE formatted.v[k]])

\* { tokens: ..., chains: ... } with the undefined members deleted
FormattedPreferences(preferences) ==
  With(With(EmptyObject, "tokens", FormattedTokens(preferences)),
       "chains", FormattedChains(preferences))

\* convertPreferencesToText(preferences) : the JSON text, Fail when it throws
convertPreferencesToText(preferences) ==
  IF ConvertThrows(preferences) THEN Fail
  ELSE Ok(JSONstringify(CopyOtherProperties(FormattedPreferences(preferences), preferences)))

----------------------------------------------------------------------------
(* String literals of the inputs, as character sequences *)

ETH == <<"e", "t", "h">>

ETH_UPPER == <<"E", "T", "H">>

OETH == <<"o", "e", "t", "h">>

OP == <<"o", "p">>

POL == <<"p", "o", "l">>

GNO == <<"g", "n", "o">>

ARB1 == <<"a", "r", "b", "1">>

BASE == <<"b", "a", "s", "e">>

BASE_MIXED == <<"B", "a", "s", "e">>

ONE == <<"1">>

N999999 == <<"9", "9", "9", "9", "9", "9">>

FOOBAR == <<"f", "o", "o", "b", "a", "r">>

CONSTRUCTOR == <<"c", "o", "n", "s", "t", "r", "u", "c", "t", "o", "r">>

NOT_VALID == <<"{", "n", "o", "t", " ", "v", "a", "l", "i", "d">>

BLANK == <<" ">>

BLANK2 == <<" ", "\t">>

IDS_CSV == <<"8", "4", "5", "3", ",", "1", "3", "7", ",", "1", "0">>

NAMES_CSV == <<"e", "t", "h", ",", " ", "a", "r", "b", "1">>

MIXED_CSV == <<"1", ",", "f", "o", "o", "b", "a", "r", ",", ",", "0", ",", " ", "O", "P">>

OP_OETH_CSV == <<"o", "p", ",", "O", "E", "T", "H">>

USDC == <<"U", "S", "D", "C">>

USDT == <<"U", "S", "D", "T">>

DAI == <<"D", "A", "I">>

TOKENS_CSV == <<"U", "S", "D", "C", ",", " ", "D", "A", "I">>

HTTPS_A == <<"h", "t", "t", "p", "s", ":", "/", "/", "a", ".", "i", "o", "/", "h">>

HTTPS_B == <<"h", "t", "t", "p", "s", ":", "/", "/", "b", ".", "i", "o">>

HTTPS_UPPER == <<"H", "T", "T", "P", "S", ":", "/", "/", "a", ".", "i", "o">>

HTTPS_NOHOST == <<"h", "t", "t", "p", "s", ":", "/", "/">>

HTTP_A == <<"h", "t", "t", "p", ":", "/", "/", "a", ".", "i", "o", "/", "h">>

FTP_A == <<"f", "t", "p", ":", "/", "/", "a", ".", "i", "o">>

----------------------------------------------------------------------------
(* Inputs *)

MaxNameLen == 3
MaxChainArrayLen == 2
MaxHooks == 17
MaxMixedHooks == 2

SeqsUpTo(S, n) == UNION {[1..k -> S] : k \in 0..n}

\* the characters the enumerated strings are spelled with
NameAlphabet == {"e", "t", "h", "E", "T", "H", "1", "3", "7", "o", "p"}

\* strings handed to resolveChainIdOrShortName, and to validate as raw text
Names ==
  {Str(s) : s \in SeqsUpTo(NameAlphabet, MaxNameLen)} \cup
  {Str(s) : s \in {OETH, ARB1, BASE, BASE_MIXED, GNO, POL, FOOBAR, CONSTRUCTOR,
                   NOT_VALID, BLANK, BLANK2, N999999}}

\* the elements a chains array is made of
ChainElements ==
  {Num(1), Num(10), Num(100), Num(0), Num(999999),
   Str(ETH), Str(ETH_UPPER), Str(OP), Str(ONE), Str(FOOBAR), Str(CONSTRUCTOR)}

ChainArrays == {Arr(a) : a \in SeqsUpTo(ChainElements, MaxChainArrayLen)}

ChainStrings ==
  {Str(s) : s \in {IDS_CSV, NAMES_CSV, MIXED_CSV, <<>>, OP_OETH_CSV, N999999}}

\* values that are neither an array nor a string
BadShapes == {Num(5), EmptyObject}

\* a few chain values for inputs that carry several fields
SomeChains ==
  {Arr(<<Num(1)>>), Arr(<<Num(137), Num(1), Num(137)>>), Arr(<<Str(FOOBAR), Num(999999)>>),
   Arr(<<Str(ETH_UPPER), Num(8453)>>), Str(NAMES_CSV), Num(5)}

TokenValues ==
  {Arr(<<Str(USDC), Str(USDT)>>), Arr(<<>>), Str(TOKENS_CSV), Str(<<>>),
   Arr(<<Num(1)>>)}

Urls == {Str(HTTPS_A), Str(HTTPS_B), Str(HTTPS_UPPER), Str(HTTPS_NOHOST), Str(HTTP_A),
         Str(FTP_A), Str(FOOBAR)}

\* n copies of x
Repeat(x, n) == [i \in 1..n |-> x]

WebhookLists ==
  {Arr(a) : a \in SeqsUpTo(Urls, MaxMixedHooks)} \cup
  {Arr(Repeat(Str(HTTPS_A), n)) : n \in 0..MaxHooks} \cup
  {Arr(Repeat(Str(HTTPS_A), n) \o <<u>>) : n \in 0..(MaxHooks - 1), u \in Urls}

\* the object with the given properties; Undefined marks a property left out
Props(f) == Obj([k \in {j \in DOMAIN f : f[j] # Undefined} |-> f[k]])

\* the fields besides chains and tokens
Rests ==
  {EmptyObject,
   Props([redirectUrl |-> Str(HTTPS_A), currency |-> Str(USDC), amount |-> Num(5),
          custom |-> Str(FOOBAR)]),
   Props([redirectUrl |-> Str(HTTP_A)]),
   Props([redirectUrl |-> Str(FOOBAR)]),
   Props([amount |-> Num(0)]),
   Props([amount |-> Num(-1)]),
   Props([currency |-> Num(5)]),
   Props([og |-> Props([baseUrl |-> Str(HTTPS_A), width |-> Num(5)])]),
   Props([og |-> Props([baseUrl |-> Str(FOOBAR)])]),
   Props([webhooks |-> Arr(<<Str(HTTPS_A), Str(HTTPS_B)>>), custom |-> Arr(<<Num(1)>>)])}

SomeRests ==
  {EmptyObject,
   Props([redirectUrl |-> Str(HTTPS_A), custom |-> Str(FOOBAR)]),
   Props([amount |-> Num(-1)])}

\* o1 and o2 in one object (their keys are disjoint)
Merge(o1, o2) == Obj(o1.v @@ o2.v)

\* inputs with one chain field, under either key
OneChainField ==
  {Props([k \in {key} |-> x]) :
     key \in {"chains", "chainIds"}, x \in ChainArrays \cup ChainStrings \cup BadShapes}

\* inputs with one token field, under either key
OneTokenField ==
  {Props([k \in {key} |-> y]) : key \in {"tokens", "tokenSymbols"}, y \in TokenValues}

\* inputs with any of the four chain and token fields, and some of the rest
FourFields ==
  {Merge(Props([chains |-> c, chainIds |-> ci, tokens |-> tk, tokenSymbols |-> ts]), r) :
     c \in SomeChains \cup {Undefined}, ci \in SomeChains \cup {Undefined},
     tk \in {Arr(<<Str(USDC), Str(USDT)>>), Arr(<<>>), Str(TOKENS_CSV), Undefined},
     ts \in {Arr(<<Str(DAI)>>), Str(TOKENS_CSV), Arr(<<Num(1)>>), Undefined},
     r \in SomeRests}

\* inputs that vary the rest
RestFields ==
  {Merge(Props([chains |-> c, tokens |-> tk]), r) :
     c \in {Arr(<<Num(1), Num(137)>>), Undefined},
     tk \in {Arr(<<Str(USDC), Str(USDT)>>), Undefined},
     r \in Rests}

\* inputs that vary the webhooks
WebhookFields ==
  {Merge(Props([chains |-> c]), Props([webhooks |-> w])) :
     c \in {Arr(<<Num(1), Num(137)>>), Undefined}, w \in WebhookLists \cup {Str(HTTPS_A)}}

\* objects as a caller of convertPreferencesToText holds them
StoredPreferences ==
  {Merge(Props([chainIds |-> ci, tokenSymbols |-> ts]), r) :
     ci \in {Arr(a) : a \in SeqsUpTo({Num(1), Num(10), Num(100), Num(5), Num(999999)},
                                     MaxChainArrayLen)} \cup {Undefined},
     ts \in {Arr(<<Str(ETH_UPPER), Str(DAI)>>), Arr(<<Str(USDC)>>), Arr(<<>>), Undefined},
     r \in {EmptyObject,
            Props([redirectUrl |-> Str(HTTPS_A), custom |-> Num(5)]),
            Props([chains |-> Str(FOOBAR)]),
            Props([tokens |-> Str(FOOBAR), custom |-> Num(5)])}}

PreferenceObjects ==
  OneChainField \cup OneTokenField \cup FourFields \cup RestFields \cup WebhookFields
    \cup StoredPreferences

\* everything a caller passes: objects, their JSON text, raw strings, other values
Inputs ==
  PreferenceObjects \cup {JSONstringify(o) : o \in PreferenceObjects} \cup Names
    \cup {Num(5), Arr(<<>>), JSONstringify(Arr(<<Num(1)>>)), JSONstringify(Str(ETH))}

----------------------------------------------------------------------------
(* The callers' steps *)

NotRun == [ok |-> FALSE, v |-> Undefined]

Init ==
  /\ input \in Inputs
  /\ pc = "start"
  /\ result = NotRun
  /\ resolved = Undefined
  /\ text = NotRun
  /\ again = NotRun

\* PreferencesSchema.parse(input)
Validate ==
  /\ pc = "start"
  /\ result' = PreferencesSchema(input)
  /\ pc' = "validated"
  /\ UNCHANGED <<input, resolved, text, again>>

\* resolveChainIdOrShortName(input), for a string
Resolve ==
  /\ pc = "start"
  /\ input.t = "string"
  /\ resolved' = resolveChainIdOrShortName(input)
  /\ pc' = "resolved"
  /\ UNCHANGED <<input, result, text, again>>

\* convertPreferencesToText(input), for an object
Convert ==
  /\ pc = "start"
  /\ IsObject(input)
  /\ text' = convertPreferencesToText(input)
  /\ pc' = "converted"
  /\ UNCHANGED <<input, result, resolved, again>>

\* convertPreferencesToText of the validated preferences
ConvertResult ==
  /\ pc = "validated"
  /\ result.ok
  /\ text' = convertPreferencesToText(result.v)
  /\ pc' = "stored"
  /\ UNCHANGED <<input, result, resolved, again>>

\* PreferencesSchema.parse of the stored text
ValidateText ==
  /\ pc = "stored"
  /\ text.ok
  /\ again' = PreferencesSchema(text.v)
  /\ pc' = "reloaded"
  /\ UNCHANGED <<input, result, resolved, text>>

\* PreferencesSchema.parse of the validated preferences
ValidateAgain ==
  /\ pc = "validated"
  /\ result.ok
  /\ again' = PreferencesSchema(result.v)
  /\ pc' = "revalidated"
  /\ UNCHANGED <<input, result, resolved, text>>

Next ==
  \/ Validate
  \/ Resolve
  \/ Convert
  \/ ConvertResult
  \/ ValidateText
  \/ ValidateAgain

Spec == Init /\ [][Next]_vars

----------------------------------------------------------------------------
(* Properties *)

\* the object a caller's input carries: the input itself, or what its JSON text encodes
Decoded(x) == IF x.t = "json" THEN x.v ELSE x

\* the ids of the supported-chain registry
SupportedIds == {Num(1), Num(137), Num(42161), Num(10), Num(100), Num(8453)}

EmptyPreferences == Props([chainIds |-> Arr(<<>>), tokenSymbols |-> Arr(<<>>)])

\* a non-empty string of decimal digits
IsNumericString(s) == s # <<>> /\ \A c \in Range(s) : IsDigit(c)

\* what the short-name table maps a lowercase name to
TableLookup(name) ==
  CASE name = ETH -> Num(1)
    [] name = OETH -> Num(10)
    [] name = OP -> Num(10)
    [] name = POL -> Num(137)
    [] name = GNO -> Num(100)
    [] name = ARB1 -> Num(42161)
    [] name = BASE -> Num(8453)
    [] OTHER -> Undefined

\* the first-declared short name of a chain id
FirstShortName(id) ==
  CASE id = Num(1) -> Str(ETH)
    [] id = Num(10) -> Str(OETH)
    [] id = Num(137) -> Str(POL)
    [] id = Num(100) -> Str(GNO)
    [] id = Num(42161) -> Str(ARB1)
    [] id = Num(8453) -> Str(BASE)
    [] OTHER -> Undefined

\* C1: resolveChainIdOrShortName(s) is the parsed integer when s is a numeric
\* string, otherwise the id the short-name table maps lowercase(s) to, otherwise
\* none.
C1_ResolvesNumericStrings ==
  pc = "resolved" =>
    resolved = IF IsNumericString(input.v)
                 THEN Num(SumDigits(Map(DigitValue, input.v)))
                 ELSE TableLookup(toLowerCase(input.v))

\* C2: PreferencesSchema.parse throws on an input whose redirectUrl is a
\* non-secure (http) URL.
C2_RejectsInsecureRedirectUrl ==
  (/\ pc = "validated"
   /\ IsObject(Decoded(input))
   /\ Has(Decoded(input), "redirectUrl")
   /\ Decoded(input).v["redirectUrl"] = Str(HTTP_A))
  => ~result.ok

\* C3 as stated: every non-empty string that JSON cannot decode validates to
\* {chainIds: [], tokenSymbols: []}.
C3_EveryNonEmptyString ==
  (/\ pc = "validated"
   /\ input.t = "string"
   /\ input.v # <<>>
   /\ ~JSONparse(input).ok)
  => result = Ok(EmptyPreferences)

\* C3 amended: every string with a non-whitespace character that JSON cannot
\* decode validates to {chainIds: [], tokenSymbols: []}.
C3_EveryNonBlankString ==
  (/\ pc = "validated"
   /\ input.t = "string"
   /\ \E c \in Range(input.v) : c \notin {" ", "\t", "\n"}
   /\ ~JSONparse(input).ok)
  => result = Ok(EmptyPreferences)

C3_Witness ==
  /\ pc = "validated"
  /\ input = Str(NOT_VALID)
  /\ result = Ok(EmptyPreferences)

\* the input carries one chain field and nothing else, an array of strings and
\* numbers or a string
C4_Case ==
  /\ IsObject(Decoded(input))
  /\ DOMAIN Decoded(input).v \in {{"chains"}, {"chainIds"}}
  /\ \A k \in DOMAIN Decoded(input).v :
       \/ Decoded(input).v[k].t = "string"
       \/ /\ IsArray(Decoded(input).v[k])
          /\ \A e \in Range(Decoded(input).v[k].v) : e.t \in {"string", "number"}

\* the elements of the chain field after the resolution step
C4_Resolved ==
  ChainResolveAll(ChainPreprocess(
    Decoded(input).v[CHOOSE k \in DOMAIN Decoded(input).v : TRUE]).v)

\* C4: an array of strings and numbers, or a comma-separated string, never fails
\* validation; the output chainIds is the subsequence of the resolved elements
\* that are ids of the supported-chain registry, in order, duplicates kept.
C4_OnlySupportedChains ==
  (pc = "validated" /\ C4_Case) =>
    /\ result.ok
    /\ result.v.v["chainIds"].v = SelectSeq(C4_Resolved, LAMBDA e : e \in SupportedIds)
    /\ \A e \in Range(result.v.v["chainIds"].v) : e \in SupportedIds

C4_Witness ==
  /\ pc = "validated"
  /\ C4_Case
  /\ Len(C4_Resolved) = 2
  /\ C4_Resolved[1] = Num(999999)
  /\ result.v.v["chainIds"].v = <<Num(10)>>

\* the normalized value of field k of the input, [] when neither k nor its
\* legacy name is there
C5_Expected(current, legacy, schema(_)) ==
  IF Has(Decoded(input), current) THEN schema(Decoded(input).v[current]).v
  ELSE IF Has(Decoded(input), legacy) THEN schema(Decoded(input).v[legacy]).v
  ELSE Arr(<<>>)

\* C5: chains wins over chainIds and tokens over tokenSymbols, also when chains
\* normalizes to the empty list; the legacy field is used when it is alone, and
\* the output field is [] when neither is there.
C5_CurrentFieldWins ==
  (pc = "validated" /\ result.ok /\ IsObject(Decoded(input))) =>
    /\ result.v.v["chainIds"] = C5_Expected("chains", "chainIds", ChainConfigSchema)
    /\ result.v.v["tokenSymbols"] = C5_Expected("tokens", "tokenSymbols", TokenConfigSchema)

C5_Witness ==
  /\ pc = "validated"
  /\ result.ok
  /\ IsObject(Decoded(input))
  /\ Has(Decoded(input), "chains")
  /\ Has(Decoded(input), "chainIds")
  /\ Has(Decoded(input), "tokens")
  /\ Has(Decoded(input), "tokenSymbols")
  /\ ChainConfigSchema(Decoded(input).v["chainIds"]).v # Arr(<<>>)
  /\ result.v.v["chainIds"] = Arr(<<>>)

\* the input carries a webhooks list of strings, and every other field is valid
C6_Case ==
  /\ IsObject(Decoded(input))
  /\ DOMAIN Decoded(input).v \in {{"webhooks"}, {"webhooks", "chains"}}
  /\ IsArray(Decoded(input).v["webhooks"])
  /\ Has(Decoded(input), "chains") => Decoded(input).v["chains"] = Arr(<<Num(1), Num(137)>>)

C6_Webhooks == Decoded(input).v["webhooks"]

\* a URL whose scheme is https
IsHttpsUrl(x) == isURL(x.v) /\ UrlScheme(x.v) = <<"h", "t", "t", "p", "s">>

\* a URL whose text begins with the lowercase characters https://
IsHttpsPrefixedUrl(x) ==
  /\ isURL(x.v)
  /\ Len(x.v) >= 8
  /\ SubSeq(x.v, 1, 8) = <<"h", "t", "t", "p", "s", ":", "/", "/">>

\* C6 as stated: validate succeeds on a webhooks list exactly when it has at most
\* 15 entries and every entry is an https URL, and then returns the list unchanged.
C6_HttpsUrlsOnly ==
  (pc = "validated" /\ C6_Case) =>
    /\ result.ok <=> (Len(C6_Webhooks.v) <= 15 /\ \A e \in Range(C6_Webhooks.v) : IsHttpsUrl(e))
    /\ result.ok => result.v.v["webhooks"] = C6_Webhooks

\* C6 amended: validate succeeds on a webhooks list exactly when it has at most
\* 15 entries and every entry is a valid URL beginning with the lowercase prefix
\* https://, and then returns the list unchanged.
C6_HttpsPrefixedUrlsOnly ==
  (pc = "validated" /\ C6_Case) =>
    /\ result.ok <=>
         (Len(C6_Webhooks.v) <= 15 /\ \A e \in Range(C6_Webhooks.v) : IsHttpsPrefixedUrl(e))
    /\ result.ok => result.v.v["webhooks"] = C6_Webhooks

C6_Witness ==
  /\ pc = "validated"
  /\ C6_Case
  /\ Len(C6_Webhooks.v) = 15
  /\ result.ok
  /\ result.v.v["webhooks"] = C6_Webhooks

\* the input is an object whose chainIds, if any, is a list of numbers and whose
\* tokenSymbols, if any, is a list of strings
C7_Case ==
  /\ IsObject(input)
  /\ Has(input, "chainIds") =>
       (IsArray(input.v["chainIds"]) /\ \A e \in Range(input.v["chainIds"].v) : e.t = "number")
  /\ Has(input, "tokenSymbols") =>
       (IsArray(input.v["tokenSymbols"])
          /\ \A e \in Range(input.v["tokenSymbols"].v) : e.t = "string")

\* the first-declared short names of the chain ids that have one
C7_ShortNames ==
  IF Has(input, "chainIds")
    THEN SelectSeq(Map(FirstShortName, input.v["chainIds"].v), LAMBDA n : n # Undefined)
    ELSE <<>>

\* the mapping has the derived chains and tokens members
C7_DerivedMembers(m) ==
  /\ Has(m, "chains") <=> C7_ShortNames # <<>>
  /\ Has(m, "chains") => m.v["chains"] = Str(Join(Map(LAMBDA n : n.v, C7_ShortNames), <<",">>))
  /\ Has(m, "tokens") <=> Has(input, "tokenSymbols")
  /\ Has(m, "tokens") =>
       m.v["tokens"] = Str(Join(Map(LAMBDA n : n.v, input.v["tokenSymbols"].v), <<",">>))

\* the mapping has every other property of the input, and not chainIds or tokenSymbols
C7_OtherMembers(m) ==
  /\ \A k \in (DOMAIN input.v) \ {"chainIds", "tokenSymbols"} : Has(m, k) /\ m.v[k] = input.v[k]
  /\ DOMAIN m.v \subseteq ((DOMAIN input.v) \ {"chainIds", "tokenSymbols"}) \cup {"chains", "tokens"}
  /\ \A k \in DOMAIN m.v : m.v[k] # Undefined

\* C7 as stated: for any object with optional chainIds and tokenSymbols plus
\* arbitrary other properties, the text encodes chains as the comma-join of the
\* first-declared short names (omitted when empty), tokens as the comma-join of
\* tokenSymbols (omitted only when absent), every other property verbatim, and
\* never chainIds or tokenSymbols.
C7_TextOfAnyObject ==
  (pc = "converted" /\ C7_Case) =>
    /\ text.ok
    /\ C7_DerivedMembers(text.v.v)
    /\ C7_OtherMembers(text.v.v)

\* C7 amended: the same, for objects that have no property named chains or tokens
\* of their own.
C7_TextOfObjectWithoutChainsTokens ==
  (pc = "converted" /\ C7_Case /\ ~Has(input, "chains") /\ ~Has(input, "tokens")) =>
    /\ text.ok
    /\ C7_DerivedMembers(text.v.v)
    /\ C7_OtherMembers(text.v.v)

C7_Witness ==
  /\ pc = "converted"
  /\ C7_Case
  /\ input.v = [chainIds |-> Arr(<<Num(1), Num(10)>>),
                tokenSymbols |-> Arr(<<Str(ETH_UPPER), Str(DAI)>>)]
  /\ text.v.v.v = [tokens |-> Str(<<"E", "T", "H", ",", "D", "A", "I">>),
                   chains |-> Str(<<"e", "t", "h", ",", "o", "e", "t", "h">>)]

\* C8: validate of the text of validate(x) gives the chainIds of validate(x).
C8_ChainRoundTrip ==
  pc = "reloaded" =>
    /\ again.ok
    /\ again.v.v["chainIds"] = result.v.v["chainIds"]

C8_Witness ==
  /\ pc = "reloaded"
  /\ result.v.v["chainIds"] = Arr(<<Num(100), Num(10)>>)
  /\ text.v.v.v["chains"] = Str(<<"g", "n", "o", ",", "o", "e", "t", "h">>)
  /\ again.v.v["chainIds"] = Arr(<<Num(100), Num(10)>>)

\* the object o with its chains and tokens carried under the legacy names
C9_Legacy(o) ==
  Obj([k \in ((DOMAIN o.v) \ {"chains", "tokens"})
               \cup {"chainIds" : j \in (DOMAIN o.v) \cap {"chains"}}
               \cup {"tokenSymbols" : j \in (DOMAIN o.v) \cap {"tokens"}} |->
         IF k = "chainIds" THEN o.v["chains"]
         ELSE IF k = "tokenSymbols" THEN o.v["tokens"]
         ELSE o.v[k]])

\* the input carries chains and tokens under the current names only
C9_Case ==
  /\ IsObject(Decoded(input))
  /\ ~Has(Decoded(input), "chainIds")
  /\ ~Has(Decoded(input), "tokenSymbols")

\* C9: an input gives the same output with its chain and token values under the
\* legacy keys chainIds and tokenSymbols as under the current keys chains and tokens.
C9_LegacyEquivalence ==
  (pc = "validated" /\ C9_Case) => PreferencesSchema(C9_Legacy(Decoded(input))) = result

C9_Witness ==
  /\ pc = "validated"
  /\ C9_Case
  /\ Has(Decoded(input), "chains")
  /\ Has(Decoded(input), "tokens")
  /\ Has(Decoded(input), "redirectUrl")
  /\ result.ok
  /\ Len(result.v.v["chainIds"].v) = 2
  /\ PreferencesSchema(C9_Legacy(Decoded(input))) = result

\* C10: validate of the object validate(x) succeeds and returns it unchanged, and
\* the output of validate never has the keys chains or tokens.
C10_Idempotent ==
  /\ (pc = "validated" /\ result.ok) =>
       (~Has(result.v, "chains") /\ ~Has(result.v, "tokens"))
  /\ pc = "revalidated" =>
       /\ again.ok
       /\ again.v.v["chainIds"] = result.v.v["chainIds"]
       /\ again.v.v["tokenSymbols"] = result.v.v["tokenSymbols"]
       /\ ~Has(again.v, "chains")
       /\ ~Has(again.v, "tokens")

C10_Witness ==
  /\ pc = "revalidated"
  /\ IsObject(Decoded(input))
  /\ Has(Decoded(input), "chains")
  /\ Has(Decoded(input), "tokens")
  /\ Len(result.v.v["chainIds"].v) = 3
  /\ Len(result.v.v["tokenSymbols"].v) = 2
  /\ again = result

\* C11: validate of the text of a validate output p gives the tokenSymbols of p,
\* also when the tokenSymbols of p is the empty list.
C11_TokenRoundTrip ==
  pc = "reloaded" =>
    /\ again.ok
    /\ again.v.v["tokenSymbols"] = result.v.v["tokenSymbols"]

====
